---- MODULE Spec2Model ----
(***************************************************************************)
(* voice-orb-visualizer: the adaptive audio pipeline (AudioPipeline), the  *)
(* force system (ForceSystem) and the per-frame orchestration and mode     *)
(* switching of VoiceOrb.                                                  *)
(*                                                                         *)
(* Numbers.  The program computes in IEEE doubles; the model computes in   *)
(* fixed point.  Volumes, thresholds, the fade multiplier, force life and  *)
(* angles are in thousandths (1.0 = 1000); the adaptive gain is in         *)
(* hundred-thousandths (1.0 = 100000) so that the 1/1000 nudge of the      *)
(* continuous adaptation stays visible.  Divisions round toward zero.      *)
(*                                                                         *)
(* Time is in milliseconds and relative to the present: performance.now()  *)
(* is 0 and a stored timestamp is the (non-positive) offset of that moment *)
(* from now.  A frame first lets dt milliseconds pass, which moves every   *)
(* stored timestamp back by dt; a timestamp stops at the horizon beyond    *)
(* which the code no longer tells it apart (the calibration duration, the  *)
(* fade-out duration).                                                     *)
(*                                                                         *)
(* Scheduling.  JavaScript runs one job at a time.  An async method runs   *)
(* synchronously up to its next await; awaiting a settled promise queues   *)
(* the continuation as a microtask, awaiting a browser operation           *)
(* (getUserMedia, AudioContext.close/resume) parks it until the browser    *)
(* settles the promise.  Animation frames and browser settlements run only *)
(* when the microtask queue is empty.                                      *)
(***************************************************************************)
EXTENDS Integers, Sequences, FiniteSets

\* ------------------------------------------------------------------ bounds
\* Total number of API calls (startMicrophone/startAssistant/startTest/stop).
MaxCalls == 3
\* Number of animation frames that change the state (a frame that changes
\* nothing is a stuttering step).
MaxTicks == 2
\* Largest number of forces held at once (spawning stops there).
MaxForces == 2
\* Stand-ins for VOLUME_HISTORY_SIZE = 100 and the 50-entry adaptation
\* window: same code, smaller buffer (AdaptWindow <= HistoryCap).
HistoryCap == 4
AdaptWindow == 2

\* Milliseconds between two animation frames.
TimeSteps == {500, 1000}
\* Raw analyser readings, thousandths: silence and full scale.
RawVals == {0, 1000}
\* Readings of the synthetic test source, thousandths, within [0, 0.4).
TestVals == {0, 390}
\* Calibration runs in progress: the samples a window can hold, the readings
\* that can follow, and the window lengths collected so far.
CalVals == {0, 20, 100}
CalLens == {0, 1, 2}
\* Long calibration windows: the values of an all-equal window.
EqualVals == {0, 5, 20, 500, 1000}
\* Random draws of a new force.
AngleVals == {0}
DecayVals == {20}
SpeedVals == {300}

\* ------------------------------------------------------- program constants
CALIBRATION_DURATION == 1000
VOLUME_HISTORY_SIZE == HistoryCap
ADAPT_MIN_HISTORY == AdaptWindow
GainUnit == 100000
GAIN_MIN == 50000
GAIN_MAX == 400000
GAIN_FLAT == 200000
DEFAULT_BASELINE == 20
DEFAULT_SENSITIVITY == 80
DEFAULT_LOUD == 400
DEFAULT_VERY_LOUD == 700
DEFAULT_GAIN == 100000
BASELINE_FLOOR == 10
FADE_OUT_MS == 1200
VOLUME_LERP == 120

\* ----------------------------------------------------------------- helpers
Max(a, b) == IF a >= b THEN a ELSE b
Min(a, b) == IF a <= b THEN a ELSE b

\* Division rounding toward zero.
Quot(a, b) == IF a >= 0 THEN a \div b ELSE -((-a) \div b)

\* utils.clamp
clamp(value, lo, hi) == Min(Max(value, lo), hi)

\* utils.easeOutCubic on thousandths: 1 - (1 - t)^3
easeOutCubic(t) == 1000 - ((1000 - t) * (1000 - t) * (1000 - t)) \div 1000000

\* What an out-of-range array read yields (JavaScript's undefined).
Undefined == 0 - 1

\* Faulty variant of sort: the array left in the order the samples arrived.
sortNone(s) == s

\* Array.prototype.sort((a, b) => a - b): the elements in ascending order.
RECURSIVE sort(_)
sort(s) ==
  IF s = <<>> THEN <<>>
  ELSE LET m == CHOOSE x \in {s[i] : i \in DOMAIN s} :
                  \A y \in {s[i] : i \in DOMAIN s} : x <= y
           k == Cardinality({i \in DOMAIN s : s[i] = m})
       IN  [i \in 1..k |-> m] \o sort(SelectSeq(s, LAMBDA x : x # m))

\* a[i] with JavaScript's zero-based index.
At(s, i) == IF i + 1 \in DOMAIN s THEN s[i + 1] ELSE Undefined

\* Faulty variants of the percentile indices: rounded up instead of down.
MedianIndexUp(n) == (n + 1) \div 2
P90IndexUp(n) == (n * 9 + 9) \div 10

\* Math.floor(length / 2) and Math.floor(length * 0.9)
MedianIndex(n) == n \div 2
P90Index(n) == (n * 9) \div 10

RECURSIVE SumSeq(_)
SumSeq(s) == IF s = <<>> THEN 0 ELSE Head(s) + SumSeq(Tail(s))

\* Array.prototype.slice(-k)
LastK(s, k) == IF Len(s) <= k THEN s ELSE SubSeq(s, Len(s) - k + 1, Len(s))

\* ------------------------------------------------------------------- state
VARIABLES
  ap,          \* the AudioPipeline object (its private fields)
  forces,      \* ForceSystem.forces
  orb,         \* the VoiceOrb object (mode and visual state)
  frame,       \* what the last draw() computed
  ticks,       \* animation frames run so far (those that changed the state)
  calls,       \* the API calls made so far, each with its position
  microtasks,  \* queue of call ids whose continuation is ready to run
  env,         \* the browser: contexts created and closed, live media streams
  obs,         \* what the callbacks reported
  probe,       \* what the first frame of the current session found
  lastOp       \* the step that led to this state

vars == <<ap, forces, orb, frame, ticks, calls, microtasks, env, obs, probe, lastOp>>

Modes == {"microphone", "assistant", "test", "stopped"}

\* AudioPipeline field initialisers
apInit ==
  [ audioContext |-> 0, analyser |-> 0, microphone |-> 0, mediaStream |-> 0,
    assistantAudioContext |-> 0, assistantAnalyser |-> 0, assistantAudioElement |-> 0,
    isCalibrating |-> FALSE, calibrationSamples |-> <<>>, calibrationStartTime |-> 0,
    baselineNoise |-> DEFAULT_BASELINE,
    dynamicSensitivityThreshold |-> DEFAULT_SENSITIVITY,
    dynamicLoudThreshold |-> DEFAULT_LOUD,
    dynamicVeryLoudThreshold |-> DEFAULT_VERY_LOUD,
    adaptiveGain |-> DEFAULT_GAIN,
    volumeHistory |-> <<>> ]

\* VoiceOrb.DEFAULT_OPTIONS, the options the core reads: the number of blob
\* vertices and the sensitivity (thousandths).
DEFAULT_OPTIONS == [pointCount |-> 24, sensitivity |-> 50]

\* VoiceOrb field initialisers.  lastAudioTime starts at 0, the time origin
\* of performance.now(): the page has been open for longer than the fade-out
\* duration, so the initial timestamp is at the horizon.
orbInit ==
  [ currentMode |-> "stopped", smoothedVolume |-> 0, targetVolume |-> 0,
    lastAudioTime |-> 0 - FADE_OUT_MS, fadeMultiplier |-> 1000,
    previousVolumeLevel |-> 0, options |-> DEFAULT_OPTIONS ]

\* AudioPipeline.getThresholds
getThresholds(p) ==
  [ baseline |-> p.baselineNoise, gain |-> p.adaptiveGain,
    sensitivity |-> p.dynamicSensitivityThreshold,
    loudThreshold |-> p.dynamicLoudThreshold,
    veryLoudThreshold |-> p.dynamicVeryLoudThreshold ]

defaultThresholds ==
  [ baseline |-> DEFAULT_BASELINE, gain |-> DEFAULT_GAIN,
    sensitivity |-> DEFAULT_SENSITIVITY, loudThreshold |-> DEFAULT_LOUD,
    veryLoudThreshold |-> DEFAULT_VERY_LOUD ]

\* What a start call found when it was issued with no other call in flight:
\* the mode, the analyser of the active source, the volume history and the
\* calibration state.  Kept until the call settles, another call is issued or a frame runs.
NoSnapshot ==
  [ id |-> 0, mode |-> "none", analyser |-> 0, history |-> <<>>,
    calibration |-> defaultThresholds ]

Snapshot(id, p, o) ==
  [ id |-> id, mode |-> o.currentMode,
    analyser |-> IF o.currentMode = "microphone" THEN p.analyser
                 ELSE IF o.currentMode = "assistant" THEN p.assistantAnalyser
                 ELSE 0,
    history |-> p.volumeHistory,
    calibration |-> getThresholds(p) ]

NoProbe == [ state |-> "none", mode |-> "stopped", afterStop |-> FALSE,
             history |-> 0, forces |-> 0, window |-> 0, defaults |-> TRUE,
             baseline |-> DEFAULT_BASELINE ]

\* ----------------------------------------------------------- AudioPipeline
\* startCalibration
startCalibration(p) ==
  [p EXCEPT !.isCalibrating = TRUE, !.calibrationSamples = <<>>,
            !.calibrationStartTime = 0]

\* Faulty variant of calibrationGain: the final clamp left out.
calibrationGainUnclamped(noiseRange) ==
  IF noiseRange > 50 THEN Quot(800 * GainUnit, noiseRange) ELSE GAIN_FLAT

\* The adaptive gain of a completed calibration: 0.8 / noiseRange when the
\* range exceeds 0.05, otherwise 2.0, then clamped to [0.5, 4.0].
calibrationGain(noiseRange) ==
  LET g == IF noiseRange > 50 THEN Quot(800 * GainUnit, noiseRange) ELSE GAIN_FLAT
  IN  Max(GAIN_MIN, Min(g, GAIN_MAX))

\* Faulty variant of calibrationBaseline: the floor at 0.01 left out.
calibrationBaselineUnfloored(median) == median

\* The baseline of a completed calibration: the median, floored at 0.01.
calibrationBaseline(median) == Max(BASELINE_FLOOR, median)

\* Faulty variant of processCalibration: the thresholds are not recomputed
\* from the new baseline.
processCalibrationKeepingThresholds(p, volume) ==
  LET pushed  == Append(p.calibrationSamples, volume)
      elapsed == 0 - p.calibrationStartTime
  IN  IF elapsed >= CALIBRATION_DURATION
      THEN LET sorted   == sort(pushed)
               median   == At(sorted, MedianIndex(Len(sorted)))
               p90      == At(sorted, P90Index(Len(sorted)))
               baseline == calibrationBaseline(median)
           IN  [ p |-> [p EXCEPT !.calibrationSamples = sorted,
                                 !.baselineNoise = baseline,
                                 !.adaptiveGain = calibrationGain(p90 - baseline),
                                 !.isCalibrating = FALSE],
                 complete |-> TRUE ]
      ELSE [ p |-> [p EXCEPT !.calibrationSamples = pushed], complete |-> FALSE ]

\* processCalibration(volume), called while isCalibrating: the pipeline after
\* the call and the value returned (true when the calibration completed).
processCalibration(p, volume) ==
  LET pushed  == Append(p.calibrationSamples, volume)
      elapsed == 0 - p.calibrationStartTime
  IN  IF elapsed >= CALIBRATION_DURATION
      THEN LET sorted   == sort(pushed)
               median   == At(sorted, MedianIndex(Len(sorted)))
               p90      == At(sorted, P90Index(Len(sorted)))
               baseline == calibrationBaseline(median)
           IN  [ p |-> [p EXCEPT !.calibrationSamples = sorted,
                                 !.baselineNoise = baseline,
                                 !.dynamicSensitivityThreshold = baseline + 30,
                                 !.dynamicLoudThreshold = baseline + 150,
                                 !.dynamicVeryLoudThreshold = baseline + 350,
                                 !.adaptiveGain = calibrationGain(p90 - baseline),
                                 !.isCalibrating = FALSE],
                 complete |-> TRUE ]
      ELSE [ p |-> [p EXCEPT !.calibrationSamples = pushed], complete |-> FALSE ]

\* Faulty variant of adjustedVolume: the cap at 1.0 left out.
adjustedVolumeUncapped(rawVolume, baseline, gain) ==
  Quot(Max(0, rawVolume - baseline) * gain, GainUnit)

\* The value processVolumeAdaptively returns: baseline subtracted and floored
\* at 0, multiplied by the gain, capped at 1.0.
adjustedVolume(rawVolume, baseline, gain) ==
  Min(Quot(Max(0, rawVolume - baseline) * gain, GainUnit), 1000)

\* The gain after the continuous adaptation step over the recent readings.
adaptGain(gain, recentVolumes) ==
  LET sum == SumSeq(recentVolumes)
      n   == Len(recentVolumes)
  IN  IF sum > 50 * n      \* avgRecent > 0.05
      THEN LET gainAdjustment == Quot(300 * n * GainUnit, sum)   \* 0.3 / avgRecent
               nudged == gain + Quot(gainAdjustment - gain, 1000)
           IN  Max(GAIN_MIN, Min(nudged, GAIN_MAX))
      ELSE gain

\* Faulty variant of pushHistory: a full history keeps its oldest entry and
\* loses the new one.
pushHistoryDroppingNewest(history, rawVolume) ==
  IF Len(history) >= VOLUME_HISTORY_SIZE THEN history
  ELSE Append(history, rawVolume)

\* volumeHistory.push(rawVolume), shifting the oldest out beyond the capacity
pushHistory(history, rawVolume) ==
  LET h == Append(history, rawVolume)
  IN  IF Len(h) > VOLUME_HISTORY_SIZE THEN Tail(h) ELSE h

\* processVolumeAdaptively(rawVolume)
processVolumeAdaptively(p, rawVolume) ==
  LET history == pushHistory(p.volumeHistory, rawVolume)
      out     == adjustedVolume(rawVolume, p.baselineNoise, p.adaptiveGain)
      gain    == IF Len(history) >= ADAPT_MIN_HISTORY /\ ~p.isCalibrating
                 THEN adaptGain(p.adaptiveGain, LastK(history, ADAPT_MIN_HISTORY))
                 ELSE p.adaptiveGain
  IN  [ p |-> [p EXCEPT !.volumeHistory = history, !.adaptiveGain = gain],
        ret |-> out ]

\* getVolume(mode).  `reading' is what the analyser in use measures (or what
\* the test generator synthesises) at this frame.  `complete' tells that a
\* calibration completed in this call, `notified' is what onCalibrated was
\* then given (the thresholds at that point of processCalibration), and
\* `adaptive' tells that the value returned is processVolumeAdaptively's.
getVolume(p, mode, reading) ==
  LET idle == [ p |-> p, ret |-> 0, complete |-> FALSE, adaptive |-> FALSE,
                notified |-> getThresholds(p) ]
  IN  IF mode = "test" THEN [idle EXCEPT !.ret = reading]
      ELSE LET analyserToUse == IF mode = "assistant" THEN p.assistantAnalyser
                                                      ELSE p.analyser
           IN  IF analyserToUse = 0 THEN idle
               ELSE LET rawVolume == Min(reading, 1000)
                        cal == IF p.isCalibrating
                               THEN processCalibration(p, rawVolume)
                               ELSE [ p |-> p, complete |-> FALSE ]
                        done == [idle EXCEPT !.p = cal.p, !.complete = cal.complete,
                                             !.notified = getThresholds(cal.p)]
                    IN  IF p.isCalibrating /\ ~cal.complete
                        THEN [idle EXCEPT !.p = cal.p]
                        ELSE IF mode = "assistant"
                        THEN [done EXCEPT !.ret = Min(rawVolume * 2, 1000)]
                        ELSE LET r == processVolumeAdaptively(cal.p, rawVolume)
                             IN  [done EXCEPT !.p = r.p, !.ret = r.ret,
                                              !.adaptive = TRUE]

\* The readings the source of `mode' can deliver at a frame, `vals' being
\* what an analyser can measure.
ReadingsFrom(vals, p, mode) ==
  IF mode = "test" THEN TestVals
  ELSE IF (IF mode = "assistant" THEN p.assistantAnalyser ELSE p.analyser) = 0
  THEN {0}
  ELSE vals

Readings(p, mode) == ReadingsFrom(RawVals, p, mode)

\* ------------------------------------------------------------- ForceSystem
\* The random draws of one update: whether Math.random() fell below the
\* creation rate, and the new force's angle, decay and speed.
NoSpawn == [spawn |-> FALSE, angle |-> 0, decay |-> 0, speed |-> 0]

SpawnDraws ==
  { [spawn |-> TRUE, angle |-> a, decay |-> d, speed |-> v] :
      a \in AngleVals, d \in DecayVals, v \in SpeedVals }

\* The draws possible in an update: a force can be created only above the
\* threshold (creationRate > 0), and the rate stays below 1.
Draws(fs, smoothedVolume, threshold) ==
  IF /\ smoothedVolume > threshold
     /\ Len(SelectSeq(fs, LAMBDA f : f.life > 0)) < MaxForces
  THEN {NoSpawn} \cup SpawnDraws
  ELSE {NoSpawn}

newForce(draw, smoothedVolume, threshold) ==
  [ angle |-> draw.angle,
    strength |-> 10000 + (smoothedVolume - threshold) * 50,
    life |-> 1000,
    decay |-> draw.decay,
    speed |-> draw.speed,
    distance |-> 0,
    maxDistance |-> 20000 + (smoothedVolume - threshold) * 60 ]

\* Faulty variant of decayForce: the base decay factor above the threshold is
\* 0.5 instead of 1.
decayForceSlowly(f, smoothedVolume, threshold, fade) ==
  LET baseDecay == IF smoothedVolume < threshold THEN 2500 ELSE 500
      fadeDecay == (1000 - fade) * 2
  IN  [f EXCEPT !.life = f.life - Quot(f.decay * (baseDecay + fadeDecay), 1000),
                !.distance = Min(f.distance + f.speed, f.maxDistance),
                !.angle = f.angle + 5]

\* The per-update change of one force.
decayForce(f, smoothedVolume, threshold, fade) ==
  LET baseDecay == IF smoothedVolume < threshold THEN 2500 ELSE 1000
      fadeDecay == (1000 - fade) * 2
  IN  [f EXCEPT !.life = f.life - Quot(f.decay * (baseDecay + fadeDecay), 1000),
                !.distance = Min(f.distance + f.speed, f.maxDistance),
                !.angle = f.angle + 5]

\* Faulty variant of update: the expired forces are not removed.
updateKeepingExpired(fs, smoothedVolume, threshold, fade, draw) ==
  LET created == IF smoothedVolume > threshold /\ draw.spawn
                 THEN Append(fs, newForce(draw, smoothedVolume, threshold))
                 ELSE fs
  IN  [i \in 1..Len(created) |->
         decayForce(created[i], smoothedVolume, threshold, fade)]

\* ForceSystem.update, with the fade multiplier set just before it.
update(fs, smoothedVolume, threshold, fade, draw) ==
  LET alive   == SelectSeq(fs, LAMBDA f : f.life > 0)
      created == IF smoothedVolume > threshold /\ draw.spawn
                 THEN Append(alive, newForce(draw, smoothedVolume, threshold))
                 ELSE alive
  IN  [i \in 1..Len(created) |->
         decayForce(created[i], smoothedVolume, threshold, fade)]

\* ForceSystem.getActiveCount
getActiveCount(fs) == Len(fs)

\* Math.PI, thousandths of a radian.
PI == 3142

\* The angular distance getInfluenceAt computes between the query angle and
\* a force's angle.
angularDistance(angle, forceAngle) ==
  LET angleDiff == IF angle >= forceAngle THEN angle - forceAngle
                   ELSE forceAngle - angle
  IN  IF angleDiff > PI THEN PI * 2 - angleDiff ELSE angleDiff

angularFalloff(angleDiff) ==
  Max(0, 1000 - Quot(angleDiff * 1000, Quot(PI * 4, 10)))

\* Math.sin((distance / maxDistance) * Math.PI), by Bhaskara's rational
\* approximation 16 x (1 - x) / (5 - 4 x (1 - x)) with x in thousandths.
distanceEffect(f) ==
  LET x == Quot(f.distance * 1000, f.maxDistance)
      y == Quot(x * (1000 - x), 1000)
  IN  Quot(16 * y * 1000, 5000 - 4 * y)

\* The contribution of one force to the influence at an angle.
forceInfluence(f, angle) ==
  LET forceAmount ==
        Quot(Quot(f.strength * f.life, 1000)
               * angularFalloff(angularDistance(angle, f.angle)), 1000)
  IN  Quot(forceAmount * distanceEffect(f), 1000)

\* ForceSystem.getInfluenceAt
getInfluenceAt(fs, angle) ==
  SumSeq([i \in 1..Len(fs) |-> forceInfluence(fs[i], angle)])

\* ---------------------------------------------------------------- VoiceOrb
\* Faulty variant of nextFade: the two branches exchanged.
nextFadeExchanged(fade, currentVolumeLevel, previousVolumeLevel) ==
  clamp(IF currentVolumeLevel < previousVolumeLevel
        THEN fade + Quot((1000 - fade) * 150, 1000)
        ELSE Quot(fade * 960, 1000),
        0, 1000)

\* The fade multiplier after one frame.
nextFade(fade, currentVolumeLevel, previousVolumeLevel) ==
  clamp(IF currentVolumeLevel < previousVolumeLevel
        THEN Quot(fade * 960, 1000)
        ELSE fade + Quot((1000 - fade) * 150, 1000),
        0, 1000)

\* Faulty variant of smoothVolume: the peak is held.
smoothVolumeHoldingPeak(smoothedVolume, targetVolume) ==
  Max(smoothedVolume, targetVolume)

\* Faulty variant of smoothVolume: the target is added, not approached.
smoothVolumeAccumulating(smoothedVolume, targetVolume) ==
  smoothedVolume + targetVolume

\* The smoothed volume after one frame: a step of volumeLerpFactor toward the
\* target.
smoothVolume(smoothedVolume, targetVolume) ==
  smoothedVolume + Quot((targetVolume - smoothedVolume) * VOLUME_LERP, 1000)

\* VoiceOrb.draw up to the force update: the orb after the frame.
drawOrbState(o, rawVolume, sensitivity) ==
  LET lastAudioTime == IF rawVolume > sensitivity THEN 0 ELSE o.lastAudioTime
      timeSinceAudio == 0 - lastAudioTime
      fadeProgress == Min(Quot(timeSinceAudio * 1000, FADE_OUT_MS), 1000)
      fadeFactor == 1000 - easeOutCubic(fadeProgress)
      targetVolume == Quot(rawVolume * fadeFactor, 1000)
      smoothedVolume == smoothVolume(o.smoothedVolume, targetVolume)
  IN  [o EXCEPT !.lastAudioTime = lastAudioTime,
                !.targetVolume = targetVolume,
                !.smoothedVolume = smoothedVolume,
                !.fadeMultiplier = nextFade(o.fadeMultiplier, smoothedVolume,
                                            o.previousVolumeLevel),
                !.previousVolumeLevel = smoothedVolume]

\* VoiceOrb.resetVisualState
resetVisualState(o) ==
  [o EXCEPT !.smoothedVolume = 0, !.targetVolume = 0, !.fadeMultiplier = 1000,
            !.previousVolumeLevel = 0]

\* What the first frame of a session finds before it runs.
Probed ==
  [ state |-> "seen", mode |-> probe.mode, afterStop |-> probe.afterStop,
    history |-> Len(ap.volumeHistory), forces |-> Len(forces),
    window |-> Len(ap.calibrationSamples),
    defaults |-> getThresholds(ap) = defaultThresholds,
    baseline |-> ap.baselineNoise ]

\* dt milliseconds pass: the stored timestamps fall back by dt.
\* (calibrationStartTime is read only while isCalibrating.)
agedPipeline(p, dt) ==
  IF p.isCalibrating
  THEN [p EXCEPT !.calibrationStartTime = Max(@ - dt, 0 - CALIBRATION_DURATION)]
  ELSE p

agedOrb(o, dt) ==
  [o EXCEPT !.lastAudioTime = Max(@ - dt, 0 - FADE_OUT_MS)]

\* Faulty variant of hasActiveEffects: the forces are not looked at.
hasActiveEffectsByVolume(effectiveVolume, sensitivity, activeCount) ==
  effectiveVolume >= sensitivity

\* The test of VoiceOrb.draw for active effects (drawOrb draws the relaxed
\* circle when there are none).
hasActiveEffects(effectiveVolume, sensitivity, activeCount) ==
  effectiveVolume >= sensitivity \/ activeCount > 0

\* VoiceOrb.draw, dt milliseconds after the previous frame: the pipeline, the
\* orb and the forces after it, whether a calibration completed in it and
\* what onCalibrated was given, and what the frame computed:
\*   mode, reading  the mode and the source's reading at the frame
\*   rawVolume      the volume getVolume returned (adaptive: it came from
\*                  processVolumeAdaptively)
\*   calibrating    calibration was active in the frame and did not complete
\*   sampled        a sample was appended to the calibration window
\*   touched        window, CalibrationState or volume history changed
\*   sensitivity    the threshold the frame used
\*   options        the options at the frame
\*   effectiveVolume, activeCount, relaxed   what drawOrb was handed and drew
\*   removed        the expired forces the update removed
\*   points         the vertex count the blob was generated from (0: relaxed)
\*   threw          drawBlob threw (no vertex), which ends the animation loop
drawn(p, o, fs, reading, gv, o1, fs1) ==
  LET sensitivity == getThresholds(gv.p).sensitivity
      effectiveVolume == Quot(o1.smoothedVolume * o1.fadeMultiplier, 1000)
      active == hasActiveEffects(effectiveVolume, sensitivity,
                                 getActiveCount(fs1))
  IN  [ ap |-> gv.p, orb |-> o1, forces |-> fs1,
        complete |-> gv.complete, notified |-> gv.notified,
        frame |-> [ mode |-> o.currentMode, reading |-> reading,
                    rawVolume |-> gv.ret, adaptive |-> gv.adaptive,
                    calibrating |-> p.isCalibrating /\ ~gv.complete,
                    sampled |-> Len(gv.p.calibrationSamples)
                                  # Len(p.calibrationSamples),
                    touched |-> <<gv.p.calibrationSamples, getThresholds(gv.p),
                                  gv.p.volumeHistory>>
                                # <<p.calibrationSamples, getThresholds(p),
                                    p.volumeHistory>>,
                    sensitivity |-> sensitivity,
                    options |-> o.options,
                    effectiveVolume |-> effectiveVolume,
                    activeCount |-> getActiveCount(fs1),
                    removed |-> Len(fs) - Len(SelectSeq(fs, LAMBDA f : f.life > 0)),
                    relaxed |-> ~active,
                    points |-> IF active THEN o.options.pointCount ELSE 0,
                    threw |-> active /\ o.options.pointCount <= 0 ] ]

\* The value of a singleton set.
Only(S) == CHOOSE x \in S : TRUE

\* draw from the force update on: o1 is the orb after the volume smoothing
\* and the fade step.  (Each stage's value is computed once and handed on.)
drawForces(p, o, fs, reading, rnd, gv, o1) ==
  Only({ drawn(p, o, fs, reading, gv, o1, fs1) :
           fs1 \in { update(fs, o1.smoothedVolume,
                            getThresholds(gv.p).sensitivity,
                            o1.fadeMultiplier, rnd) } })

\* draw once getVolume has returned gv.
drawVolume(p, o, fs, reading, dt, rnd, gv) ==
  Only({ drawForces(p, o, fs, reading, rnd, gv, o1) :
           o1 \in { drawOrbState(agedOrb(o, dt), gv.ret,
                                 getThresholds(gv.p).sensitivity) } })

drawFrame(p, o, fs, reading, dt, rnd) ==
  Only({ drawVolume(p, o, fs, reading, dt, rnd, gv) :
           gv \in { getVolume(agedPipeline(p, dt), o.currentMode, reading) } })

\* The frame the constructor draws (startAnimation): everything at rest.
restFrame == drawFrame(apInit, orbInit, <<>>, 0, 0, NoSpawn).frame

\* The state after construction.
Init ==
  /\ ap = apInit
  /\ forces = <<>>
  /\ orb = orbInit
  /\ frame = restFrame
  /\ ticks = 0
  /\ calls = <<>>
  /\ microtasks = <<>>
  /\ env = [contexts |-> {}, closed |-> {}, streams |-> {}, liveStreams |-> {}]
  /\ obs = [lastModeChange |-> "none", onError |-> 0, calNotified |-> 0,
            stopOverStart |-> FALSE, before |-> NoSnapshot,
            calPayload |-> defaultThresholds]
  /\ probe = NoProbe
  /\ lastOp = "other"

\* One animation frame, dt milliseconds after the previous one: VoiceOrb.draw.
\* A frame that threw has scheduled no further frame.
Animate(reading, dt, draw) ==
  /\ microtasks = <<>>
  /\ ~frame.threw
  /\ \E d \in {drawFrame(ap, orb, forces, reading, dt, draw)} :
         /\ draw \in Draws(forces, d.orb.smoothedVolume, d.frame.sensitivity)
         /\ ap' = d.ap
         /\ orb' = d.orb
         /\ forces' = d.forces
         /\ frame' = d.frame
         /\ obs' = IF d.complete
                   THEN [obs EXCEPT !.calNotified = @ + 1,
                                    !.calPayload = d.notified,
                                    !.before = NoSnapshot]
                   ELSE [obs EXCEPT !.before = NoSnapshot]
         /\ lastOp' = IF d.complete THEN "calibrated" ELSE "other"
  /\ probe' = IF probe.state = "pending" THEN Probed
              ELSE IF probe.state = "seen" THEN [NoProbe EXCEPT !.state = "old"]
              ELSE probe
  /\ UNCHANGED <<calls, microtasks, env>>

\* A frame of a bounded run: the frames that change something are counted.
Tick(reading, dt, draw) ==
  /\ ticks < MaxTicks
  /\ Animate(reading, dt, draw)
  /\ ticks' = IF <<ap, orb, forces, frame, obs, probe>>' = <<ap, orb, forces, frame, obs, probe>>
              THEN ticks ELSE ticks + 1

\* ------------------------------------------------- AudioPipeline.cleanup
\* A call that has settled.
Done == [kind |-> "none", pc |-> "done", ctx |-> 0]

\* No start or stop call is in flight: every call issued has settled.
NoCallInFlight == \A id \in DOMAIN calls : calls[id] = Done

\* A startMicrophone() or startAssistant() call is pending.
StartPending == \E id \in DOMAIN calls : calls[id].kind \in {"mic", "asst"}

\* The last lines of cleanup: analysers dropped, processing state reset.
cleanupTail(p) ==
  [p EXCEPT !.analyser = 0, !.assistantAnalyser = 0,
            !.volumeHistory = <<>>,
            !.adaptiveGain = DEFAULT_GAIN,
            !.baselineNoise = DEFAULT_BASELINE,
            !.dynamicSensitivityThreshold = DEFAULT_SENSITIVITY,
            !.dynamicLoudThreshold = DEFAULT_LOUD,
            !.dynamicVeryLoudThreshold = DEFAULT_VERY_LOUD]

\* cleanup from the assistant resources on: it either parks at the await of
\* assistantAudioContext.close() or runs to its end.
cleanupAssistant(p, closed) ==
  LET p1 == [p EXCEPT !.assistantAudioElement = 0]
  IN  IF p1.assistantAudioContext # 0 /\ p1.assistantAudioContext \notin closed
      THEN [p |-> p1, pc |-> "close_asst", ctx |-> p1.assistantAudioContext]
      ELSE [p |-> cleanupTail(p1), pc |-> "cleanup_done", ctx |-> 0]

\* cleanup from its first line: it either parks at the await of
\* audioContext.close(), or goes on with the assistant resources.
cleanupStart(p, closed) ==
  LET p1 == [p EXCEPT !.isCalibrating = FALSE, !.calibrationSamples = <<>>,
                      !.microphone = 0, !.mediaStream = 0]
  IN  IF p1.audioContext # 0 /\ p1.audioContext \notin closed
      THEN [p |-> p1, pc |-> "close_mic", ctx |-> p1.audioContext]
      ELSE cleanupAssistant(p1, closed)

\* The browser after the synchronous part of a cleanup: the tracks of the
\* held stream are stopped; a context whose close() was called reports
\* state 'closed' at once (eager) or only when the promise settles.
envAfterCleanup(e, stream, r, eager) ==
  [e EXCEPT !.liveStreams = @ \ {stream},
            !.closed = IF eager /\ r.ctx # 0 THEN @ \cup {r.ctx} ELSE @]

\* The call record and the microtask queue once a cleanup segment has run.
Parked(kind, r) == [kind |-> kind, pc |-> r.pc, ctx |-> r.ctx]

Queue(id, pc) ==
  IF pc \in {"cleanup_done", "init_ret", "init_err"}
  THEN Append(microtasks, id) ELSE microtasks

\* --------------------------------------------------------------- API calls
\* startTest()
StartTest ==
  /\ Len(calls) < MaxCalls
  /\ orb' = [orb EXCEPT !.currentMode = "test"]
  /\ obs' = [obs EXCEPT !.lastModeChange = "test", !.stopOverStart = FALSE,
                        !.before = NoSnapshot]
  /\ calls' = Append(calls, Done)
  /\ probe' = [NoProbe EXCEPT !.state = "pending", !.mode = "test",
                              !.afterStop = (lastOp = "stop_call")]
  /\ lastOp' = "other"
  /\ UNCHANGED <<ap, forces, frame, ticks, microtasks, env>>

\* stop(), up to its await of cleanup()
Stop(eager) ==
  /\ Len(calls) < MaxCalls
  /\ LET r == cleanupStart(ap, env.closed)
     IN  /\ ap' = r.p
         /\ env' = envAfterCleanup(env, ap.mediaStream, r, eager)
         /\ calls' = Append(calls, Parked("stop", r))
         /\ microtasks' = Queue(Len(calls) + 1, r.pc)
  /\ orb' = [orb EXCEPT !.currentMode = "stopped"]
  /\ obs' = [obs EXCEPT !.stopOverStart = @ \/ StartPending,
                        !.before = NoSnapshot]
  /\ probe' = NoProbe
  /\ lastOp' = "stop_call"
  /\ UNCHANGED <<forces, frame, ticks>>

\* startMicrophone() / startAssistant(), up to the await of cleanup() in
\* initMicrophone / initAssistant
Start(kind, eager) ==
  /\ Len(calls) < MaxCalls
  /\ LET r == cleanupStart(ap, env.closed)
     IN  /\ ap' = r.p
         /\ env' = envAfterCleanup(env, ap.mediaStream, r, eager)
         /\ calls' = Append(calls, Parked(kind, r))
         /\ microtasks' = Queue(Len(calls) + 1, r.pc)
  /\ obs' = [obs EXCEPT !.stopOverStart = FALSE,
                        !.before = IF NoCallInFlight
                                   THEN Snapshot(Len(calls) + 1, ap, orb)
                                   ELSE NoSnapshot]
  /\ lastOp' = "other"
  /\ UNCHANGED <<forces, orb, frame, ticks, probe>>

\* ------------------------------------------- initMicrophone / initAssistant
\* How `new AudioContext()` can turn out.
ContextOutcomes == {"running", "suspended", "throws"}

\* initMicrophone from createAnalyser on (after the context is running): a
\* field emptied meanwhile by a concurrent cleanup makes the line throw.
micFinish(p) ==
  IF p.audioContext = 0
  THEN [p |-> p, pc |-> "init_err"]
  ELSE LET p1 == [p EXCEPT !.analyser = p.audioContext]
       IN  IF p1.mediaStream = 0
           THEN [p |-> p1, pc |-> "init_err"]
           ELSE [p |-> startCalibration([p1 EXCEPT !.microphone = p1.mediaStream]),
                 pc |-> "init_ret"]

\* initAssistant from createAnalyser on.
asstFinish(p) ==
  IF p.assistantAudioContext = 0
  THEN [p |-> p, pc |-> "init_err"]
  ELSE [p |-> [p EXCEPT !.assistantAnalyser = p.assistantAudioContext,
                        !.assistantAudioElement = 1],
        pc |-> "init_ret"]

\* initMicrophone once getUserMedia has resolved with stream `sid': the
\* stream is stored, the context `cid' created, and unless it is suspended
\* the analyser is wired and the calibration started.
micAcquired(p, sid, cid, outcome) ==
  LET p1 == [p EXCEPT !.mediaStream = sid]
      p2 == [p1 EXCEPT !.audioContext = cid]
  IN  IF outcome = "throws" THEN [p |-> p1, pc |-> "init_err"]
      ELSE IF outcome = "suspended" THEN [p |-> p2, pc |-> "resume"]
      ELSE micFinish(p2)

\* initAssistant after its cleanup.
asstCreated(p, cid, outcome) ==
  LET p1 == [p EXCEPT !.assistantAudioContext = cid]
  IN  IF outcome = "throws" THEN [p |-> p, pc |-> "init_err"]
      ELSE IF outcome = "suspended" THEN [p |-> p1, pc |-> "resume"]
      ELSE asstFinish(p1)

\* What the callbacks have seen once an init segment has run: the pipeline's
\* catch block invokes the user's onError; calNotified counts the
\* notifications of the calibration run in progress, so it restarts with
\* startCalibration.
Reported(o, kind, pc) ==
  IF pc = "init_err" THEN [o EXCEPT !.onError = @ + 1]
  ELSE IF pc = "init_ret" /\ kind = "mic" THEN [o EXCEPT !.calNotified = 0]
  ELSE o

\* The media stream and the audio context that call `id' acquires: every
\* call obtains fresh objects, named after the call.
StreamOf(id) == id
ContextOf(id) == id

ModeOf(kind) == IF kind = "mic" THEN "microphone" ELSE "assistant"

\* ------------------------------------------------------------ continuations
IsHead(id) == microtasks # <<>> /\ Head(microtasks) = id

\* stop() after its await: forces cleared, visual state reset, mode reported.
StopContinue(id) ==
  /\ IsHead(id)
  /\ calls[id].kind = "stop" /\ calls[id].pc = "cleanup_done"
  /\ forces' = <<>>
  /\ orb' = resetVisualState(orb)
  /\ obs' = [obs EXCEPT !.lastModeChange = "stopped"]
  /\ calls' = [calls EXCEPT ![id] = Done]
  /\ microtasks' = Tail(microtasks)
  /\ lastOp' = "stop_done"
  /\ UNCHANGED <<ap, frame, ticks, env, probe>>

\* initMicrophone after its cleanup: getUserMedia is requested.
MicRequest(id) ==
  /\ IsHead(id)
  /\ calls[id].kind = "mic" /\ calls[id].pc = "cleanup_done"
  /\ calls' = [calls EXCEPT ![id].pc = "gum"]
  /\ microtasks' = Tail(microtasks)
  /\ lastOp' = "other"
  /\ UNCHANGED <<ap, forces, orb, frame, ticks, env, obs, probe>>

\* initAssistant after its cleanup: the context is created.
AsstCreate(id, outcome) ==
  /\ IsHead(id)
  /\ calls[id].kind = "asst" /\ calls[id].pc = "cleanup_done"
  /\ LET cid == ContextOf(id)
         r == asstCreated(ap, cid, outcome)
     IN  /\ ap' = r.p
         /\ env' = IF outcome = "throws" THEN env
                   ELSE [env EXCEPT !.contexts = @ \cup {cid}]
         /\ calls' = [calls EXCEPT ![id].pc = r.pc,
                                   ![id].ctx = IF r.pc = "resume" THEN cid ELSE 0]
         /\ microtasks' = IF r.pc = "resume" THEN Tail(microtasks)
                          ELSE Append(Tail(microtasks), id)
         /\ obs' = Reported(obs, calls[id].kind, r.pc)
  /\ lastOp' = "other"
  /\ UNCHANGED <<forces, orb, frame, ticks, probe>>

\* startMicrophone / startAssistant after the await of init: the mode is set.
ModeSet(id) ==
  /\ IsHead(id)
  /\ calls[id].pc = "init_ret"
  /\ orb' = [orb EXCEPT !.currentMode = ModeOf(calls[id].kind)]
  /\ obs' = [obs EXCEPT !.lastModeChange = ModeOf(calls[id].kind),
                        !.before = NoSnapshot]
  /\ probe' = [NoProbe EXCEPT !.state = "pending", !.mode = ModeOf(calls[id].kind)]
  /\ calls' = [calls EXCEPT ![id] = Done]
  /\ microtasks' = Tail(microtasks)
  /\ lastOp' = "other"
  /\ UNCHANGED <<ap, forces, frame, ticks, env>>

\* startMicrophone / startAssistant when init threw: the catch block reports
\* the error to the user's onError and rethrows.
StartFailed(id) ==
  /\ IsHead(id)
  /\ calls[id].pc = "init_err"
  /\ obs' = [obs EXCEPT !.onError = @ + 1, !.before = NoSnapshot]
  /\ calls' = [calls EXCEPT ![id] = Done]
  /\ microtasks' = Tail(microtasks)
  /\ lastOp' = "other"
  /\ UNCHANGED <<ap, forces, orb, frame, ticks, env, probe>>

\* -------------------------------------------------------- browser settles
\* The promise of an AudioContext.close() settles: cleanup resumes.
CloseSettle(id, eager) ==
  /\ microtasks = <<>>
  /\ calls[id].pc \in {"close_mic", "close_asst"}
  /\ LET closed == env.closed \cup {calls[id].ctx}
         r == IF calls[id].pc = "close_mic"
              THEN cleanupAssistant([ap EXCEPT !.audioContext = 0], closed)
              ELSE [p |-> cleanupTail([ap EXCEPT !.assistantAudioContext = 0]),
                    pc |-> "cleanup_done", ctx |-> 0]
     IN  /\ ap' = r.p
         /\ env' = [env EXCEPT !.closed = IF eager /\ r.ctx # 0
                                          THEN closed \cup {r.ctx} ELSE closed]
         /\ calls' = [calls EXCEPT ![id].pc = r.pc, ![id].ctx = r.ctx]
         /\ microtasks' = Queue(id, r.pc)
  /\ lastOp' = "other"
  /\ UNCHANGED <<forces, orb, frame, ticks, obs, probe>>

\* The promise of getUserMedia settles: rejected, or resolved with a stream.
GumSettle(id, granted, outcome) ==
  /\ microtasks = <<>>
  /\ calls[id].pc = "gum"
  /\ LET sid == StreamOf(id)
         cid == ContextOf(id)
         r == IF granted THEN micAcquired(ap, sid, cid, outcome)
              ELSE [p |-> ap, pc |-> "init_err"]
     IN  /\ ap' = r.p
         /\ env' = IF ~granted THEN env
                   ELSE IF outcome = "throws"
                   THEN [env EXCEPT !.streams = @ \cup {sid},
                                    !.liveStreams = @ \cup {sid}]
                   ELSE [env EXCEPT !.streams = @ \cup {sid},
                                    !.liveStreams = @ \cup {sid},
                                    !.contexts = @ \cup {cid}]
         /\ calls' = [calls EXCEPT ![id].pc = r.pc,
                                   ![id].ctx = IF r.pc = "resume" THEN cid ELSE 0]
         /\ microtasks' = Queue(id, r.pc)
         /\ obs' = Reported(obs, calls[id].kind, r.pc)
  /\ lastOp' = "other"
  /\ UNCHANGED <<forces, orb, frame, ticks, probe>>

\* The promise of AudioContext.resume() settles (it can reject only on a
\* context that was closed meanwhile): init goes on, or fails.
ResumeSettle(id, ok) ==
  /\ microtasks = <<>>
  /\ calls[id].pc = "resume"
  /\ ok \/ calls[id].ctx \in env.closed
  /\ LET r == IF ~ok THEN [p |-> ap, pc |-> "init_err"]
              ELSE IF calls[id].kind = "mic" THEN micFinish(ap)
              ELSE asstFinish(ap)
     IN  /\ ap' = r.p
         /\ calls' = [calls EXCEPT ![id].pc = r.pc, ![id].ctx = 0]
         /\ microtasks' = Queue(id, r.pc)
         /\ obs' = Reported(obs, calls[id].kind, r.pc)
  /\ lastOp' = "other"
  /\ UNCHANGED <<forces, orb, frame, ticks, env, probe>>

\* ------------------------------------------------------------ specification
\* The steps other than an animation frame: the API calls, the continuations
\* of the async methods and the settlements of the browser's promises.
Calls ==
  \/ StartTest
  \/ \E eager \in BOOLEAN : Stop(eager)
  \/ \E kind \in {"mic", "asst"}, eager \in BOOLEAN : Start(kind, eager)

Continuations ==
  \/ \E id \in DOMAIN calls : StopContinue(id)
  \/ \E id \in DOMAIN calls : MicRequest(id)
  \/ \E id \in DOMAIN calls, outcome \in ContextOutcomes : AsstCreate(id, outcome)
  \/ \E id \in DOMAIN calls : ModeSet(id)
  \/ \E id \in DOMAIN calls : StartFailed(id)

Settlements ==
  \/ \E id \in DOMAIN calls, eager \in BOOLEAN : CloseSettle(id, eager)
  \/ \E id \in DOMAIN calls, granted \in BOOLEAN, outcome \in ContextOutcomes :
        GumSettle(id, granted, outcome)
  \/ \E id \in DOMAIN calls, ok \in BOOLEAN : ResumeSettle(id, ok)

\* An animation frame whose analyser reading is drawn from `vals'.
Frame(vals) ==
  \E reading \in ReadingsFrom(vals, ap, orb.currentMode), dt \in TimeSteps,
     draw \in {NoSpawn} \cup SpawnDraws : Tick(reading, dt, draw)

\* The program from its construction.
Next == Frame(RawVals) \/ Calls \/ Continuations \/ Settlements

Spec == Init /\ [][Next]_vars

\* -------------------------------------------------------- calibration runs
\* The pipeline of a microphone session whose calibration run started `start'
\* ms ago and has collected `window': what startMicrophone() (call 1) and the
\* frames since then leave.  (During calibration getVolume returns 0, so the
\* orb is still at rest.)
micSession(window, start) ==
  [apInit EXCEPT !.audioContext = ContextOf(1), !.analyser = ContextOf(1),
                 !.microphone = StreamOf(1), !.mediaStream = StreamOf(1),
                 !.isCalibrating = TRUE, !.calibrationSamples = window,
                 !.calibrationStartTime = start]

InitSession(windows) ==
  /\ \E w \in windows :
       /\ ap = micSession(w, IF w = <<>> THEN 0 ELSE 0 - (CALIBRATION_DURATION \div 2))
       /\ probe = IF w = <<>>
                  THEN [NoProbe EXCEPT !.state = "pending", !.mode = "microphone"]
                  ELSE [NoProbe EXCEPT !.state = "old"]
  /\ forces = <<>>
  /\ orb = [orbInit EXCEPT !.currentMode = "microphone"]
  /\ frame = restFrame
  /\ ticks = 0
  /\ calls = <<Done>>
  /\ microtasks = <<>>
  /\ env = [contexts |-> {ContextOf(1)}, closed |-> {},
            streams |-> {StreamOf(1)}, liveStreams |-> {StreamOf(1)}]
  /\ obs = [lastModeChange |-> "microphone", onError |-> 0, calNotified |-> 0,
            stopOverStart |-> FALSE, before |-> NoSnapshot,
            calPayload |-> defaultThresholds]
  /\ lastOp = "other"

\* Short windows of every composition, followed by any further calls.
CalWindows == UNION { [1..n -> CalVals] : n \in CalLens }
CalReadings == CalVals \cup {1000}

InitCal == InitSession(CalWindows)
NextCal == Frame(CalReadings) \/ Calls \/ Continuations \/ Settlements
SpecCal == InitCal /\ [][NextCal]_vars

\* Long windows: one sample short of 1000, all equal or 900 quiet and 99 (then
\* 100) loud samples, in the order collected or with the loud ones first.
QuietThenLoud == [i \in 1..999 |-> IF i <= 900 THEN 20 ELSE 500]
LoudThenQuiet == [i \in 1..999 |-> IF i <= 99 THEN 500 ELSE 20]
LongWindows ==
  { [i \in 1..999 |-> v] : v \in EqualVals } \cup {QuietThenLoud, LoudThenQuiet}

InitWindow == InitSession(LongWindows)
NextWindow == Frame(EqualVals)
SpecWindow == InitWindow /\ [][NextWindow]_vars

\* --------------------------------------------------------- session frames
\* The objects after the frames `past' (each a reading, the time since the
\* frame before, and the update's random draws), drawn one after another
\* from the objects st; no frame follows one that threw.
RECURSIVE played(_, _)
played(st, past) ==
  IF Len(past) = 0 THEN st
  ELSE LET before == played(st, SubSeq(past, 1, Len(past) - 1))
           last == past[Len(past)]
           d == drawFrame(before.ap, before.orb, before.forces, last.reading,
                          last.dt, last.rnd)
       IN  IF before.frame.threw THEN before
           ELSE [ap |-> d.ap, orb |-> d.orb, forces |-> d.forces,
                 frame |-> d.frame]

\* The objects a start leaves: startAssistant() and startTest() on a fresh
\* orb, and startMicrophone() (micSession, calibration just started).
started(p, mode) ==
  [ap |-> p, orb |-> [orbInit EXCEPT !.currentMode = mode], forces |-> <<>>,
   frame |-> restFrame]

assistantSession ==
  [apInit EXCEPT !.assistantAudioContext = ContextOf(1),
                 !.assistantAnalyser = ContextOf(1),
                 !.assistantAudioElement = 1]

\* Frames half a second apart: `loud' frames of `reading', a force spawned
\* in those listed in SpawnFrames, then `quiet' frames of silence.
SpawnFrames == {1, 3}
LoudRuns == 0..3
QuietRuns == 0..30
TestRuns == 0..4
HistoryRuns == 0..(VOLUME_HISTORY_SIZE + 1)

Past(loud, quiet, reading, rnd) ==
  [i \in 1..(loud + quiet) |->
     [reading |-> IF i <= loud THEN reading ELSE 0, dt |-> 500,
      rnd |-> IF i <= loud /\ i \in SpawnFrames THEN rnd ELSE NoSpawn]]

\* The frames of a microphone session: one full calibration period after the
\* start a frame reading 0.02 completes the calibration, then n frames
\* reading 0.02 and 0 in turn.
MicPast(n) ==
  [i \in 1..(n + 1) |->
     [reading |-> IF i % 2 = 1 THEN 20 ELSE 0,
      dt |-> IF i = 1 THEN CALIBRATION_DURATION ELSE 500, rnd |-> NoSpawn]]

\* An established session: an assistant session after loud then quiet
\* frames, a test session after some frames, or a calibrated microphone
\* session after some frames.
InitFrames ==
  /\ \E rnd \in SpawnDraws :
       \E st \in { played(started(assistantSession, "assistant"),
                          Past(loud, quiet, 1000, rnd)) :
                     loud \in LoudRuns, quiet \in QuietRuns }
               \cup { played(started(apInit, "test"), Past(n, 0, v, rnd)) :
                        n \in TestRuns, v \in TestVals }
               \cup { played(started(micSession(<<>>, 0), "microphone"),
                             MicPast(n)) : n \in HistoryRuns } :
         /\ ap = st.ap
         /\ orb = st.orb
         /\ forces = st.forces
         /\ frame = st.frame
         /\ env = [contexts |-> IF st.orb.currentMode = "test" THEN {}
                                ELSE {ContextOf(1)},
                   closed |-> {},
                   streams |-> IF st.orb.currentMode = "microphone"
                               THEN {StreamOf(1)} ELSE {},
                   liveStreams |-> IF st.orb.currentMode = "microphone"
                                   THEN {StreamOf(1)} ELSE {}]
         /\ obs = [lastModeChange |-> st.orb.currentMode, onError |-> 0,
                   stopOverStart |-> FALSE, before |-> NoSnapshot,
                   calNotified |-> IF st.orb.currentMode = "microphone"
                                   THEN 1 ELSE 0,
                   calPayload |-> getThresholds(st.ap)]
  /\ probe = [NoProbe EXCEPT !.state = "old"]
  /\ ticks = 0
  /\ calls = <<Done>>
  /\ microtasks = <<>>
  /\ lastOp = "other"

NextFrames == Frame(RawVals)
SpecFrames == InitFrames /\ [][NextFrames]_vars

\* ------------------------------------------------------------------ options
\* { ...options, ...newOptions }: the fields given replace the stored ones.
merged(options, newOptions) ==
  [k \in DOMAIN options |->
     IF k \in DOMAIN newOptions THEN newOptions[k] ELSE options[k]]

\* Option objects a caller can pass: none of the two fields, a pointCount
\* (valid, zero or negative), a sensitivity (thousandths), or both.
PointCounts == {0 - 1, 0, 24}
Sensitivities == {20, 200}
NoOptions == [k \in {} |-> 0]
GivenOptions ==
  {NoOptions}
  \cup { [pointCount |-> n] : n \in PointCounts }
  \cup { [sensitivity |-> v] : v \in Sensitivities }
  \cup { [pointCount |-> n, sensitivity |-> v] :
           n \in PointCounts, v \in Sensitivities }

\* setOptions(newOptions)
SetOptions(newOptions) ==
  /\ orb' = [orb EXCEPT !.options = merged(@, newOptions)]
  /\ lastOp' = "other"
  /\ UNCHANGED <<ap, forces, frame, ticks, calls, microtasks, env, obs, probe>>

\* new VoiceOrb(canvas, options): the options merged over the defaults, and
\* the first frame drawn.
InitOptions ==
  /\ \E options \in GivenOptions :
       /\ orb = [orbInit EXCEPT !.options = merged(DEFAULT_OPTIONS, options)]
       /\ frame = drawFrame(apInit, orb, <<>>, 0, 0, NoSpawn).frame
  /\ ap = apInit
  /\ forces = <<>>
  /\ ticks = 0
  /\ calls = <<>>
  /\ microtasks = <<>>
  /\ env = [contexts |-> {}, closed |-> {}, streams |-> {}, liveStreams |-> {}]
  /\ obs = [lastModeChange |-> "none", onError |-> 0, calNotified |-> 0,
            stopOverStart |-> FALSE, before |-> NoSnapshot,
            calPayload |-> defaultThresholds]
  /\ probe = NoProbe
  /\ lastOp = "other"

\* An orb constructed with any options, then test sessions, option changes
\* and frames.
NextOptions ==
  \/ Frame(RawVals)
  \/ StartTest
  \/ \E newOptions \in GivenOptions : SetOptions(newOptions)
SpecOptions == InitOptions /\ [][NextOptions]_vars

\* ----------------------------------------------------------------- silence
\* An established session from the frame on at which every reading is 0.  The
\* animation loop requests the next frame at the end of each frame, so frames
\* keep running: the frame step is weakly fair.  ticks tells the first silent
\* frames from the later ones.
SilentTick(dt, draw) ==
  /\ Animate(0, dt, draw)
  /\ ticks' = Min(ticks + 1, MaxTicks)

NextSilence ==
  \E dt \in TimeSteps, draw \in {NoSpawn} \cup SpawnDraws : SilentTick(dt, draw)
SpecSilence == InitFrames /\ [][NextSilence]_vars /\ WF_vars(NextSilence)

\* ------------------------------------------------------------ force system
\* The forces an update keeps (its filter).
Kept(fs) == SelectSeq(fs, LAMBDA f : f.life > 0)

\* The ForceSystem on its own: update called with any smoothed volume, any
\* threshold and any fade multiplier set before it.  One force is held at a
\* time: a force is spawned only into an empty collection.  The orb and the
\* frame hold the values handed to the last call.
ForceVolumes == {0, 80, 1000}
ForceThresholds == {80}
ForceFades == {0, 1000}
ForceAngles == {0, 6280}
ForceDecays == {8, 20}
ForceDraws ==
  { [spawn |-> TRUE, angle |-> a, decay |-> d, speed |-> v] :
      a \in ForceAngles, d \in ForceDecays, v \in SpeedVals }

ForceUpdate(smoothedVolume, threshold, fade, rnd) ==
  /\ rnd.spawn => (smoothedVolume > threshold /\ Kept(forces) = <<>>)
  /\ forces' = update(forces, smoothedVolume, threshold, fade, rnd)
  /\ orb' = [orb EXCEPT !.smoothedVolume = smoothedVolume,
                        !.previousVolumeLevel = smoothedVolume,
                        !.fadeMultiplier = fade]
  /\ frame' = [frame EXCEPT !.sensitivity = threshold,
                            !.activeCount = getActiveCount(forces'),
                            !.removed = Len(forces) - Len(Kept(forces))]
  /\ UNCHANGED <<ap, ticks, calls, microtasks, env, obs, probe, lastOp>>

\* The number of updates a force has been through, the one that created it
\* included: each adds 0.005 to the angle it was created with.
updatesSeen(f) ==
  LET created == CHOOSE a \in ForceAngles :
                   /\ a <= f.angle
                   /\ \A other \in ForceAngles : other <= f.angle => other <= a
  IN  (f.angle - created) \div 5

\* The angles getInfluenceAt is asked about, in [0, 2 pi).
QueryAngles == {0, 100, 1571, PI, 6283}

NextForces ==
  \E smoothedVolume \in ForceVolumes, threshold \in ForceThresholds,
     fade \in ForceFades, rnd \in {NoSpawn} \cup ForceDraws :
       ForceUpdate(smoothedVolume, threshold, fade, rnd)
SpecForces == Init /\ [][NextForces]_vars

\* ================================================================== claims
\* Raw volumes across [0, 1], thousandths.
UnitVolumes == {0, 10, 20, 21, 100, 500, 999, 1000}

\* C1: in every reachable pipeline state (baseline and gain reached through
\* calibration, continuous adaptation or teardown) and for every raw volume in
\* [0, 1], the value processVolumeAdaptively returns lies in [0, 1]: both the
\* value it would return now and the value the last frame got from it.
C1_AdjustedVolumeInUnitRange ==
  /\ \A raw \in UnitVolumes :
        adjustedVolume(raw, ap.baselineNoise, ap.adaptiveGain) \in 0..1000
  /\ frame.adaptive => frame.rawVolume \in 0..1000

\* C1 happens: a frame of a calibrated microphone session got the full-scale
\* value 1.0 from processVolumeAdaptively although (raw - baseline) * gain
\* exceeds it.
C1_Witness ==
  /\ frame.adaptive /\ frame.rawVolume = 1000
  /\ ap.volumeHistory # <<>>
  /\ (ap.volumeHistory[Len(ap.volumeHistory)] - ap.baselineNoise) * ap.adaptiveGain
        > 1000 * GainUnit

\* C2: in every reachable state (initially, after every
\* processVolumeAdaptively call, after a calibration run completes, after
\* cleanup) the adaptive gain is within [0.5, 4.0].
C2_GainWithinClamp == ap.adaptiveGain \in GAIN_MIN..GAIN_MAX

\* C2 happens: a calibration run completed over a window whose noise range
\* (0.09) asks for more than 4.0, and the gain sits at 4.0.
C2_Witness ==
  /\ lastOp = "calibrated"
  /\ ap.calibrationSamples = <<0, 0, 100>>
  /\ obs.calPayload.gain = GAIN_MAX
  /\ ap.adaptiveGain = GAIN_MAX

\* C3: the calibration sample window is non-cleared only while isCalibrating
\* is true: whenever calibration is not active (never started, completed, or
\* torn down) calibrationSamples is empty.
C3_WindowClearedUnlessCalibrating ==
  ~ap.isCalibrating => ap.calibrationSamples = <<>>

\* C4: stop() immediately followed by startTest(): the first frame of the
\* test session finds an empty volume history and no active force.
C4_FreshAfterStopThenTest ==
  (probe.state = "seen" /\ probe.mode = "test" /\ probe.afterStop)
    => (probe.history = 0 /\ probe.forces = 0)

\* C5: the first frame of every new mode (microphone, assistant or test) finds
\* the volume history empty, no force, CalibrationState at its defaults and no
\* calibration sample collected.
C5_FreshAtModeSwitch ==
  probe.state = "seen"
    => (probe.history = 0 /\ probe.forces = 0 /\ probe.defaults /\ probe.window = 0)

\* C6: when stop() completes, the force collection is empty, smoothedVolume is
\* 0, fadeMultiplier is 1, the volume history is empty, calibration is
\* inactive and CalibrationState equals the defaults.
C6_AtRestWhenStopCompletes ==
  lastOp = "stop_done"
    => /\ forces = <<>>
       /\ orb.smoothedVolume = 0
       /\ orb.fadeMultiplier = 1000
       /\ ap.volumeHistory = <<>>
       /\ ~ap.isCalibrating
       /\ getThresholds(ap) = defaultThresholds

\* ---- completed calibration runs
\* The window of the run that completed in the last step (the code keeps it,
\* sorted) and what onCalibrated was given.
Window == ap.calibrationSamples
Published == obs.calPayload

AllEqual(w) == \A i \in DOMAIN w : w[i] = w[1]
Count(w, v) == Cardinality({i \in DOMAIN w : w[i] = v})

\* The element of rank k (from 0) among the samples of w, by counting.
OrderStat(w, k) ==
  CHOOSE x \in {w[i] : i \in DOMAIN w} :
    /\ Cardinality({i \in DOMAIN w : w[i] < x}) <= k
    /\ k < Cardinality({i \in DOMAIN w : w[i] <= x})

\* A run over 1000 or more samples, all equal, has just completed.
EqualWindowCompleted ==
  lastOp = "calibrated" /\ Len(Window) >= 1000 /\ AllEqual(Window)

\* C7 as stated: a calibration run over 1000 or more samples all equal to v
\* completes with baseline v and gain 2.0.
C7_EqualWindowYieldsValue ==
  EqualWindowCompleted
    => (Published.baseline = Window[1] /\ Published.gain = 2 * GainUnit)

\* C7 amended: a calibration run over 1000 or more samples all equal to v
\* completes with baseline max(0.01, v) and gain 2.0.
C7_EqualWindowYieldsFlooredValue ==
  EqualWindowCompleted
    => /\ Published.baseline = (IF Window[1] < 10 THEN 10 ELSE Window[1])
       /\ Published.gain = 2 * GainUnit

\* C7 happens: a run over 1000 samples equal to a value below 0.01 completed.
C7_Witness == EqualWindowCompleted /\ Window[1] < 10

\* A run over 900 samples of 0.02 and 100 samples of 0.5 has just completed.
MixedWindowCompleted ==
  /\ lastOp = "calibrated" /\ Len(Window) = 1000
  /\ Count(Window, 20) = 900 /\ Count(Window, 500) = 100

\* C8 as stated: the run over 900 samples of 0.02 and 100 of 0.5 completes
\* with baseline 0.02 and the gain on the lower clamp bound 0.5.
C8_MixedWindowGainAtMinimum ==
  MixedWindowCompleted
    => (Published.baseline = 20 /\ Published.gain = GAIN_MIN)

\* C8 amended: the run over 900 samples of 0.02 and 100 of 0.5 completes with
\* baseline 0.02 and gain 0.8 / 0.48 (about 1.667), strictly inside the clamp.
C8_MixedWindowGainInsideClamp ==
  MixedWindowCompleted
    => /\ Published.baseline = 20
       /\ Published.gain = (800 * GainUnit) \div 480
       /\ GAIN_MIN < Published.gain /\ Published.gain < GAIN_MAX

\* C8 happens: such a run completed and its gain is the pipeline's gain.
C8_Witness == MixedWindowCompleted /\ ap.adaptiveGain = Published.gain

\* The calibration state the spec derives from window w: median and p90 are
\* the elements of rank floor(n/2) and floor(0.9 n) of the sorted window.
Derived(w) ==
  LET n == Len(w)
      median == OrderStat(w, n \div 2)
      p90 == OrderStat(w, (9 * n) \div 10)
      baseline == IF median < 10 THEN 10 ELSE median
      noiseRange == p90 - baseline
      raw == IF noiseRange > 50 THEN (800 * GainUnit) \div noiseRange
                                ELSE 2 * GainUnit
      gain == IF raw < 50000 THEN 50000 ELSE IF raw > 400000 THEN 400000 ELSE raw
  IN  [ baseline |-> baseline, gain |-> gain, sensitivity |-> baseline + 30,
        loudThreshold |-> baseline + 150, veryLoudThreshold |-> baseline + 350 ]

\* C9: when a calibration run completes, onCalibrated is given baseline =
\* max(0.01, median), sensitivity, loud and veryLoud = baseline + 0.03, + 0.15
\* and + 0.35 and gain = clamp(noiseRange > 0.05 ? 0.8 / noiseRange : 2.0, 0.5,
\* 4.0), median and p90 being the floor-indexed elements of the sorted window;
\* these are the values published in the pipeline (the gain until the
\* continuous adaptation next moves it); and the notification is made exactly
\* once for the run.
C9_CalibrationPublished ==
  /\ obs.calNotified <= 1
  /\ lastOp = "calibrated"
       => /\ Len(Window) >= 1
          /\ Published = Derived(Window)
          /\ [getThresholds(ap) EXCEPT !.gain = Published.gain] = Published
          /\ Len(ap.volumeHistory) < ADAPT_MIN_HISTORY
                => ap.adaptiveGain = Published.gain
          /\ obs.calNotified = 1

\* C9 happens: a run over three samples (0.02, 0.02, 1.0) completed, median
\* and p90 differ and the derived gain 0.8 / 0.98 is neither flat nor clamped.
C9_Witness ==
  /\ lastOp = "calibrated"
  /\ Len(Window) = 3
  /\ Published.baseline = 20
  /\ Published.gain = (800 * GainUnit) \div 980
  /\ obs.calNotified = 1

C11_SilentWhileCalibrating ==
  frame.calibrating => frame.rawVolume = 0

\* C12: calibration runs only in microphone mode: a frame appends a sample
\* to the calibration window only in microphone mode, and a frame in
\* assistant mode returns min(2 * raw, 1) and leaves the window, the
\* CalibrationState and the volume history as they were, for every
\* interleaving of startMicrophone and startAssistant.
C12_CalibrationOnlyInMicrophoneMode ==
  /\ frame.sampled => frame.mode = "microphone"
  /\ frame.mode = "assistant" =>
       /\ ~frame.touched
       /\ frame.rawVolume = Min(2 * frame.reading, 1000)

\* C13: in every state between operations (after update has returned), every
\* force held in the force collection has 0 <= life <= 1.
C13_ForceLifeInUnitRange ==
  \A i \in 1..Len(forces) : forces[i].life \in 0..1000

\* The fields of a force no update changes.
SameForce(f, g) ==
  /\ f.decay = g.decay /\ f.speed = g.speed /\ f.strength = g.strength
  /\ f.maxDistance = g.maxDistance

\* C14: across every update the collection is the forces that had life > 0,
\* in order and each with strictly less life than before, followed by at most
\* one force spawned in this update (created at life 1, decayed once by at
\* most 0.020 * 3, moved one step): a force whose life was <= 0 is removed
\* and nothing puts it back.
C14_ForcesDecayAndNeverReturn ==
  [][ LET kept == Kept(forces)
          n == Len(forces')
      IN  /\ n \in {Len(kept), Len(kept) + 1}
          /\ \A i \in 1..Len(kept) :
                /\ SameForce(forces'[i], kept[i])
                /\ forces'[i].life < kept[i].life
          /\ n = Len(kept) + 1 =>
                /\ forces'[n].life \in 940..999
                /\ forces'[n].distance = Min(forces'[n].speed,
                                             forces'[n].maxDistance) ]_vars

\* C14 happens: an update removed an expired force and nothing took its
\* place: the collection is empty after it.
C14_Witness ==
  /\ ticks > 0
  /\ frame.removed = 1
  /\ forces = <<>>

\* C15: the volume history never holds more than VOLUME_HISTORY_SIZE entries,
\* and every processVolumeAdaptively call leaves it as the history before
\* followed by the raw volume pushed, cut to the most recent
\* VOLUME_HISTORY_SIZE entries: a full history loses its oldest entry.
C15_HistoryKeepsMostRecent ==
  /\ [](Len(ap.volumeHistory) <= VOLUME_HISTORY_SIZE)
  /\ [][frame'.adaptive =>
          ap'.volumeHistory = LastK(Append(ap.volumeHistory, frame'.reading),
                                    VOLUME_HISTORY_SIZE)]_vars

\* C15 happens: the history is full, its newest entry is a full-scale reading
\* pushed by a frame, and the first reading of the session (0.02) has been
\* shifted out: the oldest entry is a later one (0).
C15_Witness ==
  /\ ticks > 0 /\ frame.adaptive
  /\ Len(ap.volumeHistory) = VOLUME_HISTORY_SIZE
  /\ ap.volumeHistory[1] = 0
  /\ ap.volumeHistory[VOLUME_HISTORY_SIZE] = 1000

\* C16: the fade multiplier stays in [0, 1]; a frame whose smoothedVolume is
\* lower than the frame before does not raise it, and a frame whose
\* smoothedVolume is higher moves it toward 1 (strictly so while it is
\* 0.99 or less) and never beyond 1.
C16_FadeFollowsVolume ==
  /\ [](orb.fadeMultiplier \in 0..1000)
  /\ [][ /\ orb'.smoothedVolume < orb.smoothedVolume =>
             orb'.fadeMultiplier <= orb.fadeMultiplier
         /\ orb'.smoothedVolume > orb.smoothedVolume =>
             /\ orb'.fadeMultiplier >= orb.fadeMultiplier
             /\ orb'.fadeMultiplier <= 1000
             /\ orb.fadeMultiplier <= 990 =>
                  orb'.fadeMultiplier > orb.fadeMultiplier ]_vars

\* C16 happens: after frames of falling volume have lowered the fade
\* multiplier, a loud frame of the session raised smoothedVolume and moved
\* the multiplier toward 1 without reaching it.
C16_Witness ==
  /\ ticks > 0
  /\ frame.mode = "assistant" /\ frame.reading = 1000
  /\ orb.smoothedVolume > 0
  /\ orb.fadeMultiplier \in 500..999

\* C17: in test mode with the default options, the effective volume
\* smoothedVolume * fadeMultiplier of every frame is neither negative nor
\* above 1.0.
C17_TestEffectiveVolumeInUnitRange ==
  (frame.mode = "test" /\ frame.options = DEFAULT_OPTIONS) =>
     /\ frame.effectiveVolume = Quot(orb.smoothedVolume * orb.fadeMultiplier, 1000)
     /\ frame.effectiveVolume \in 0..1000

\* C17 happens: a frame of a test session reports an effective volume above
\* 0.15.
C17_Witness ==
  /\ ticks > 0
  /\ frame.mode = "test" /\ frame.options = DEFAULT_OPTIONS
  /\ frame.effectiveVolume > 150

\* C18: a zero or negative pointCount is rejected by the constructor and by
\* setOptions: it is never stored in the options, and no frame generates the
\* blob from a vertex count below 1.
C18_InvalidPointCountRejected ==
  /\ orb.options.pointCount >= 1
  /\ ~frame.relaxed => frame.points >= 1

\* C19: a sensitivity given to the constructor or to setOptions is, from the
\* next frame on, the threshold the frame uses for last-audio tracking, force
\* spawning and the relaxed test (no calibration takes place here).
C19_SensitivityOverrideUsed ==
  frame.options.sensitivity \in Sensitivities =>
     frame.sensitivity = frame.options.sensitivity

\* C20: every frame draws the relaxed circle exactly when its effective
\* volume is below the sensitivity threshold and the force system's active
\* count is 0; every other frame generates and draws the deformed blob.
C20_RelaxedExactlyWhenNoActiveEffects ==
  /\ frame.effectiveVolume = Quot(orb.smoothedVolume * orb.fadeMultiplier, 1000)
  /\ frame.sensitivity = getThresholds(ap).sensitivity
  /\ frame.activeCount = getActiveCount(forces)
  /\ frame.relaxed <=>
       (frame.effectiveVolume < frame.sensitivity /\ frame.activeCount = 0)
  /\ frame.points = (IF frame.relaxed THEN 0 ELSE orb.options.pointCount)
  /\ ~frame.threw

\* C20 happens: a frame whose effective volume is below the threshold draws
\* the deformed blob because a force is still held.
C20_Witness ==
  /\ ticks > 0
  /\ ~frame.relaxed
  /\ frame.effectiveVolume < frame.sensitivity
  /\ frame.activeCount > 0

\* C21: in every update the base decay factor is 2.5 when smoothedVolume is
\* at or below the sensitivity threshold and 1 only when it is strictly
\* above: the life of each force the update keeps drops by
\* decay * (baseDecay + (1 - fadeMultiplier) * 2) with that factor.
C21_BaseDecayAtOrBelowThreshold ==
  [][ LET kept == Kept(forces)
          baseDecay == IF orb'.smoothedVolume <= frame'.sensitivity
                       THEN 2500 ELSE 1000
          fadeDecay == (1000 - orb'.fadeMultiplier) * 2
      IN  \A i \in 1..Len(kept) :
            forces'[i].life
              = kept[i].life - Quot(kept[i].decay * (baseDecay + fadeDecay), 1000)
    ]_vars


\* The shortest angular distance between two directions: the smaller of the
\* two arcs between them on the circle.
shortestArc(a, b) ==
  LET r == (IF a >= b THEN a - b ELSE b - a) % (PI * 2)
  IN  Min(r, PI * 2 - r)

\* C22: for every force held (after any number of rotations of its angle)
\* and every query angle in [0, 2 pi), the angular distance getInfluenceAt uses
\* is the shortest angular distance between the two directions and lies in
\* [0, pi], so the angular falloff is in [0, 1]; with no forces the influence
\* is 0.
C22_AngularDistanceIsShortestArc ==
  /\ \A q \in QueryAngles : \A i \in 1..Len(forces) :
       LET d == angularDistance(q, forces[i].angle)
       IN  /\ d = shortestArc(q, forces[i].angle)
           /\ 0 <= d /\ d <= PI
           /\ 0 <= angularFalloff(d) /\ angularFalloff(d) <= 1000
  /\ forces = <<>> => \A q \in QueryAngles : getInfluenceAt(forces, q) = 0

\* C23: whenever no start or stop call is in flight, the mode most recently
\* reported through onModeChange is the mode getMode() returns, for every
\* sequence of startTest / startMicrophone / startAssistant / stop calls.
C23_ReportedModeIsCurrentMode ==
  (NoCallInFlight /\ obs.lastModeChange # "none")
    => obs.lastModeChange = orb.currentMode

\* C24: stop() wins over a start in flight: when stop() was called while a
\* startMicrophone() or startAssistant() promise was pending (and no start was
\* called after it), then once the calls have settled the mode is 'stopped',
\* no analyser is attached and calibration is not active.
C24_StopWinsOverPendingStart ==
  (obs.stopOverStart /\ NoCallInFlight)
    => /\ orb.currentMode = "stopped"
       /\ ap.analyser = 0 /\ ap.assistantAnalyser = 0
       /\ ~ap.isCalibrating

\* C25: after a stop() that was called and completes with no start call
\* pending, every media stream acquired and every audio context created by an
\* earlier startMicrophone() / startAssistant() call has been stopped / closed,
\* also when two start calls overlapped.
C25_NothingLeftOpenAfterStop ==
  (lastOp = "stop_done" /\ ~obs.stopOverStart /\ ~StartPending)
    => /\ env.liveStreams = {}
       /\ env.contexts \subseteq env.closed

\* C26: when startMicrophone() or startAssistant() fails, the user's onError
\* callback is invoked exactly once for that failure: once in the step in
\* which the initialisation throws, and not again in the step in which the
\* call's promise rejects.
C26_ErrorReportedOnce ==
  [][ \A id \in DOMAIN calls :
        /\ (calls[id].pc # "init_err" /\ calls'[id].pc = "init_err")
              => obs'.onError = obs.onError + 1
        /\ (calls[id].pc = "init_err" /\ calls'[id] = Done)
              => obs'.onError = obs.onError ]_vars

\* C27: a failed startMicrophone() or startAssistant() leaves the orb as it
\* was before the call: when the promise of a call issued with no other call
\* in flight rejects (no other call and no frame in between), the mode, the
\* analyser of the previously active source, the volume history and the
\* calibration state are what they were when the call was issued.
C27_FailedStartChangesNothing ==
  [][ \A id \in DOMAIN calls :
        (calls[id].pc = "init_err" /\ calls'[id] = Done /\ obs.before.id = id)
          => Snapshot(id, ap', orb') = obs.before ]_vars

\* C28: in every reachable state the calibration values are strictly ordered,
\* 0 < baseline < sensitivity threshold < loud threshold < veryLoud threshold:
\* at the defaults, after every calibration run and after every teardown.
C28_CalibrationValuesOrdered ==
  /\ 0 < ap.baselineNoise
  /\ ap.baselineNoise < ap.dynamicSensitivityThreshold
  /\ ap.dynamicSensitivityThreshold < ap.dynamicLoudThreshold
  /\ ap.dynamicLoudThreshold < ap.dynamicVeryLoudThreshold

\* A calibration run has just completed with a baseline above the default
\* sensitivity threshold.
C28_Witness ==
  lastOp = "calibrated" /\ ap.baselineNoise > DEFAULT_SENSITIVITY

\* The number of updates within which every force expires: the initial life
\* 1.0 over the smallest decay rate 0.008.
MaxUpdates == 1000 \div 8

\* C29: whatever volume, threshold and fade multiplier in [0, 1] the updates
\* are given, a force's life is at or below 0 once it has been through 125
\* updates, and the following update drops it: no force held has been through
\* more than 125 updates.
C29_ForcesExpireWithinBound ==
  \A i \in 1..Len(forces) :
    /\ updatesSeen(forces[i]) <= MaxUpdates
    /\ updatesSeen(forces[i]) = MaxUpdates => forces[i].life <= 0

\* A force with the smallest decay rate that every update decayed by the
\* smallest factor: it has been through 125 updates and its life is exactly 0.
C29_Witness ==
  \E i \in 1..Len(forces) :
    /\ updatesSeen(forces[i]) = MaxUpdates
    /\ forces[i].decay = 8
    /\ forces[i].life = 0

\* The orb is relaxed: the effective volume of the last frame is below the
\* sensitivity threshold, no force is in the collection, and the frame drew
\* the relaxed circle.
Relaxed ==
  /\ frame.effectiveVolume < frame.sensitivity
  /\ forces = <<>>
  /\ frame.relaxed

\* C30: when every reading is 0 and frames keep running, the orb eventually
\* reaches the relaxed state (effective volume below the sensitivity
\* threshold and no force in the collection) and stays relaxed.
C30_SilenceRelaxesTheOrb == <>[]Relaxed

\* A silent frame, after a silent frame that still held a force, has removed
\* the last expired force and left the orb relaxed.
C30_Witness ==
  Relaxed /\ ticks > 1 /\ frame.reading = 0 /\ frame.removed > 0
====
